---- MODULE Spec2Model ----
(***************************************************************************)
(* A model of monthly_summarizer.py: the run_summary pipeline              *)
(* (load_daily_articles, build_prompt, generate_summary, the report        *)
(* upsert and send_report), the aggregations of build_prompt and the       *)
(* text function clean_summary.                                            *)
(*                                                                         *)
(* Spec          the pipeline: NumRuns invocations of run_summary over one *)
(*               article collection and one report collection              *)
(* SpecOverlap   the same with one more invocation under way               *)
(* SpecKeywords  Counter(tags).most_common(10) over bounded frames         *)
(* SpecEngaged   dropna / sort_values / head(5) over bounded frames        *)
(* SpecClean     clean_summary over bounded texts                          *)
(***************************************************************************)
EXTENDS Integers, Sequences, FiniteSets, TLC

VARIABLES
    today,      \* the UTC day datetime.utcnow() falls in
    articles,   \* PROCESSED_COLLECTION: the documents, in natural order
    reports,    \* SUMMARIES_COLLECTION: the report documents
    outbox,     \* the calls of send_report, in order
    pc,         \* pc[r]: where invocation r of run_summary is
    loc,        \* loc[r]: the locals of invocation r
    calls,      \* calls[r]: how many external calls invocation r has made
    arg,        \* the argument of the function under check (function specs)
    res         \* its results (function specs)

vars == <<today, articles, reports, outbox, pc, loc, calls, arg, res>>

pipeVars == <<today, articles, reports, outbox, pc, loc, calls>>

----------------------------------------------------------------------------
(* Texts are sequences of one-character strings.                           *)

\* the characters str.strip() removes that the bounded texts draw on
Whitespace == {" ", "\n"}

\* the visible characters the bounded texts draw on
Visible == {"#", "S"}

Alphabet == Whitespace \cup Visible

\* longest raw text SpecClean draws
MaxLen == 6

RECURSIVE TextsUpTo(_)
TextsUpTo(n) ==
    IF n = 0 THEN {<<>>}
    ELSE LET shorter == TextsUpTo(n - 1)
         IN  shorter \cup {Append(t, c) : t \in {u \in shorter : Len(u) = n - 1},
                                          c \in Alphabet}

\* str.strip(): drop leading and trailing whitespace
strip(s) ==
    LET keep == {i \in 1..Len(s) : s[i] \notin Whitespace}
    IN  IF keep = {} THEN <<>>
        ELSE LET lo == CHOOSE i \in keep : \A j \in keep : i <= j
                 hi == CHOOSE i \in keep : \A j \in keep : j <= i
             IN  SubSeq(s, lo, hi)

\* str.find(sub): 0-based index of the first occurrence, -1 when there is none
find(s, sub) ==
    LET at == {i \in 0..(Len(s) - Len(sub)) : SubSeq(s, i + 1, i + Len(sub)) = sub}
    IN  IF at = {} THEN -1
        ELSE CHOOSE i \in at : \A j \in at : i <= j

\* `sub in s`
contains(s, sub) == \E i \in 0..(Len(s) - Len(sub)) : SubSeq(s, i + 1, i + Len(sub)) = sub

\* s[i:] for 0 <= i
from(s, i) == SubSeq(s, i + 1, Len(s))

\* The marker "### Structured Summary of Public Discussions Related to the
\* Condominium Authority of Ontario (CAO)", abbreviated: it keeps the marker's
\* shape (a run of '#' at the front, spaces inside, no whitespace at either end).
header == <<"#", "#", " ", "S">>

\* a plausible slip: the cut keeps its trailing whitespace
clean_summary_nostrip(summary_text) ==
    IF contains(summary_text, header)
    THEN from(summary_text, find(summary_text, header))
    ELSE strip(summary_text)

clean_summary(summary_text) ==
    IF contains(summary_text, header)
    THEN strip(from(summary_text, find(summary_text, header)))
    ELSE strip(summary_text)

----------------------------------------------------------------------------
(* Documents and frames.  A field of a document is [has, v]: has is FALSE  *)
(* when the key is absent from the document (NaN in the frame).  A frame   *)
(* is [cols, rows]: pd.DataFrame(data) has a column for every key some     *)
(* document of data carries, whether or not its row survives dropna.       *)

Fields == {"scraped_date", "sentiment_analysis", "tags", "upvotes", "comments",
           "content", "title"}

Val(x) == [has |-> TRUE, v |-> x]

\* an absent upvotes, comments, content (its length) or title
Absent == [has |-> FALSE, v |-> 0]

NoTags == [has |-> FALSE, v |-> <<>>]

NoDate == [has |-> FALSE, v |-> [day |-> 0, ok |-> FALSE]]

NoSentiment == [has |-> FALSE, v |-> [fmt |-> "other", label |-> ""]]

\* scraped_date values: day is where the stored string sorts among the
\* isoformat() day boundaries, ok is whether pd.to_datetime can parse it
Date(day, ok) == Val([day |-> day, ok |-> ok])

\* sentiment_analysis values: fmt "list" is a non-empty list whose first
\* element has a label, "dict" is {aggregate: {label}}, "other" is neither
Sentiment(fmt, label) == Val([fmt |-> fmt, label |-> label])

Columns(data) == {f \in Fields : \E i \in 1..Len(data) : data[i][f].has}

DataFrame(data) == [cols |-> Columns(data), rows |-> data]

\* Series.dropna() / DataFrame.dropna(subset): the rows with every named field
RECURSIVE dropna(_, _)
dropna(rows, subset) ==
    IF rows = <<>> THEN <<>>
    ELSE LET rest == dropna(Tail(rows), subset)
         IN  IF \A f \in subset : Head(rows)[f].has
             THEN <<Head(rows)>> \o rest
             ELSE rest

\* collections.Counter(s): (key, count) pairs in the order keys were first seen
RECURSIVE FirstSeen(_, _)
FirstSeen(s, seen) ==
    IF s = <<>> THEN <<>>
    ELSE IF Head(s) \in seen THEN FirstSeen(Tail(s), seen)
    ELSE <<Head(s)>> \o FirstSeen(Tail(s), seen \cup {Head(s)})

Counter(s) ==
    LET keys == FirstSeen(s, {})
    IN  [k \in 1..Len(keys) |->
            <<keys[k], Cardinality({i \in 1..Len(s) : s[i] = keys[k]})>>]

RemoveAt(s, i) == SubSeq(s, 1, i - 1) \o SubSeq(s, i + 1, Len(s))

\* a plausible slip: among equal counts the entry seen last comes first
RECURSIVE most_common_lasttie(_, _)
most_common_lasttie(items, n) ==
    IF n = 0 \/ items = <<>> THEN <<>>
    ELSE LET best == CHOOSE i \in 1..Len(items) :
                        \A j \in 1..Len(items) :
                            \/ items[j][2] < items[i][2]
                            \/ (items[j][2] = items[i][2] /\ j <= i)
         IN  <<items[best]>> \o most_common_lasttie(RemoveAt(items, best), n - 1)

\* Counter.most_common(n): heapq.nlargest(n, items, key=count), that is
\* sorted(items, key=count, reverse=True)[:n], which keeps equal counts in
\* their original order
RECURSIVE most_common(_, _)
most_common(items, n) ==
    IF n = 0 \/ items = <<>> THEN <<>>
    ELSE LET best == CHOOSE i \in 1..Len(items) :
                        \A j \in 1..Len(items) :
                            \/ items[j][2] < items[i][2]
                            \/ (items[j][2] = items[i][2] /\ i <= j)
         IN  <<items[best]>> \o most_common(RemoveAt(items, best), n - 1)

\* most_common(10)
TopN == 10

\* head(5)
TopK == 5

\* content .str[:1000]
SnippetLen == 1000

\* [tag for row in df['tags'].dropna() for tag in row]
RECURSIVE flatten_tags(_)
flatten_tags(rows) ==
    IF rows = <<>> THEN <<>>
    ELSE (IF Head(rows).tags.has THEN Head(rows).tags.v ELSE <<>>)
         \o flatten_tags(Tail(rows))

top_keywords(df) == most_common(Counter(flatten_tags(df.rows)), TopN)

\* the loop over df['sentiment_analysis'].dropna()
RECURSIVE sentiment_labels(_)
sentiment_labels(rows) ==
    IF rows = <<>> THEN <<>>
    ELSE LET row == Head(rows).sentiment_analysis
         IN  (IF row.has /\ row.v.fmt \in {"list", "dict"}
              THEN <<row.v.label>> ELSE <<>>)
             \o sentiment_labels(Tail(rows))

\* (upvotes, comments) of a is strictly above that of b
Above(a, b) ==
    \/ a.upvotes.v > b.upvotes.v
    \/ (a.upvotes.v = b.upvotes.v /\ a.comments.v > b.comments.v)

\* sort_values(by=['upvotes', 'comments'], ascending=False): a stable
\* lexsort, rows of equal keys stay in frame order
RECURSIVE sort_values(_)
sort_values(rows) ==
    IF rows = <<>> THEN <<>>
    ELSE LET best == CHOOSE i \in 1..Len(rows) :
                        \A j \in 1..Len(rows) :
                            \/ Above(rows[i], rows[j])
                            \/ (~Above(rows[j], rows[i]) /\ i <= j)
         IN  <<rows[best]>> \o sort_values(RemoveAt(rows, best))

head(rows, n) == SubSeq(rows, 1, IF Len(rows) < n THEN Len(rows) ELSE n)

\* a plausible slip: ranked by comments first
RECURSIVE sort_by_comments(_)
sort_by_comments(rows) ==
    IF rows = <<>> THEN <<>>
    ELSE LET best == CHOOSE i \in 1..Len(rows) :
                        \A j \in 1..Len(rows) :
                            \/ rows[i].comments.v > rows[j].comments.v
                            \/ (rows[i].comments.v = rows[j].comments.v /\ i <= j)
         IN  <<rows[best]>> \o sort_by_comments(RemoveAt(rows, best))

top_engaged_bycomments(df) ==
    head(sort_by_comments(dropna(df.rows, {"upvotes", "comments"})), TopK)

top_engaged(df) ==
    head(sort_values(dropna(df.rows, {"upvotes", "comments"})), TopK)

\* df['content'].fillna('').str[:1000]: the length of each snippet
content_snippets(df) ==
    [i \in 1..Len(df.rows) |->
        IF ~df.rows[i].content.has THEN 0
        ELSE IF df.rows[i].content.v < SnippetLen THEN df.rows[i].content.v
        ELSE SnippetLen]

\* the columns build_prompt indexes, in the order it reaches them
PromptColumns == <<"sentiment_analysis", "tags", "upvotes", "comments",
                   "content", "title">>

MissingColumns(df) == {i \in 1..Len(PromptColumns) : PromptColumns[i] \notin df.cols}

\* build_prompt: the KeyError of the first missing column, or the
\* aggregates the prompt renders
build_prompt(df) ==
    IF MissingColumns(df) # {}
    THEN [raised            |-> PromptColumns[CHOOSE i \in MissingColumns(df) :
                                        \A j \in MissingColumns(df) : i <= j],
          sentiment_summary |-> <<>>,
          top_keywords      |-> <<>>,
          top_engaged       |-> <<>>,
          content_snippets  |-> <<>>]
    ELSE [raised            |-> "",
          sentiment_summary |-> Counter(sentiment_labels(df.rows)),
          top_keywords      |-> top_keywords(df),
          top_engaged       |-> top_engaged(df),
          content_snippets  |-> content_snippets(df)]

----------------------------------------------------------------------------
(* Messages.  A message text is a sequence of segments [k, c, n]: a        *)
(* literal or an opaque string named k of n characters, or (k = "") the    *)
(* characters c themselves.  Slicing works on the lengths, so a segment    *)
(* cut short is no longer equal to the whole one.                          *)

Lit(k, n) == [k |-> k, c |-> <<>>, n |-> n]

Chars(c) == [k |-> "", c |-> c, n |-> Len(c)]

\* summary[:3000]
BodyLimit == 3000

\* text[:limit]
RECURSIVE Slice(_, _)
Slice(text, limit) ==
    IF text = <<>> \/ limit = 0 THEN <<>>
    ELSE LET h == Head(text)
         IN  IF h.n <= limit
             THEN <<h>> \o Slice(Tail(text), limit - h.n)
             ELSE <<[h EXCEPT !.n = limit,
                              !.c = SubSeq(h.c, 1, IF Len(h.c) < limit
                                                   THEN Len(h.c) ELSE limit)]>>

\* the whole of string seg occurs in text
Carries(text, seg) == \E i \in 1..Len(text) : text[i] = seg

NoArticles == <<Lit("No articles found today.", 24)>>

\* a plausible slip: the message drops what was raised
error_msg_nocause(e) == <<Lit("Summary failed: ", 16)>>

\* f"Summary failed: {str(e)}"
error_msg(e) == <<Lit("Summary failed: ", 16)>> \o e

\* RuntimeError(f"LLM failed: {str(e)}")
LLMFailed(cause) == <<Lit("LLM failed: ", 12), cause>>

\* str(KeyError(column)) is the column name in quotes
KeyError(column) == <<Lit("'", 1), Lit(column, Len(column)), Lit("'", 1)>>

\* the metadata footer appended to the summary, for a one-digit count
formatted_summary(summary) == <<Chars(summary), Lit("Metadata", 103)>>

\* the body send_report sets: heading, article count, summary[:3000], "..."
Body(summary) ==
    <<Lit("Summary for", 56)>> \o Slice(summary, BodyLimit) \o <<Lit("...", 3)>>

----------------------------------------------------------------------------
(* The pipeline: invocations of run_summary, each a fresh process, over    *)
(* the same two collections.                                               *)

\* invocations of run_summary under way together in Spec; SpecOverlap has
\* one more
NumRuns == 1

\* days the clock may advance while the runs are under way
MaxDay == 1

\* documents in PROCESSED_COLLECTION
MaxArticles == 2

\* timedelta(days=30)
WindowDays == 30

Runs == DOMAIN pc

FullDoc(id, scraped_date) ==
    [id                 |-> id,
     scraped_date       |-> scraped_date,
     sentiment_analysis |-> Sentiment("list", "negative"),
     tags               |-> Val(<<"condo", "fees">>),
     upvotes            |-> Val(3),
     comments           |-> Val(1),
     content            |-> Val(1200),
     title              |-> Val(1)]

\* The documents a collection is drawn from: in the window and parseable;
\* sorting inside the window but unparseable (such as "...T25:00:00");
\* older than the window; without tags; without scraped_date; dated the
\* day after day 0, in the legacy sentiment format and without upvotes.
ArticlePool ==
    <<FullDoc(1, Date(0, TRUE)),
      FullDoc(2, Date(0, FALSE)),
      FullDoc(3, Date(0 - 40, TRUE)),
      [FullDoc(4, Date(0, TRUE)) EXCEPT !.tags = NoTags],
      [FullDoc(5, NoDate) EXCEPT !.content = Absent],
      [FullDoc(6, Date(1, TRUE)) EXCEPT !.sentiment_analysis = Sentiment("dict", "positive"),
                                        !.upvotes = Absent]>>

\* the elements of a set of pool indexes, in increasing order
RECURSIVE Pick(_)
Pick(ids) ==
    IF ids = {} THEN <<>>
    ELSE LET lo == CHOOSE i \in ids : \A j \in ids : i <= j
         IN  <<ArticlePool[lo]>> \o Pick(ids \ {lo})

Collections ==
    {Pick(ids) : ids \in {S \in SUBSET (1..Len(ArticlePool)) : Cardinality(S) <= MaxArticles}}

\* the texts the generation service may answer with
RawTexts == {<<"S", " ", "#", "#", " ", "S", "\n">>, <<" ", "S", "S">>}

\* str(e) of what the generation call may raise: a short message, and one
\* too long for "Summary failed: LLM failed: " + message to fit summary[:3000]
Causes == {Lit("Connection error.", 17), Lit("<html>502 Bad Gateway", BodyLimit - 27)}

\* str(e) of what MongoClient / update_one may raise
StoreErrors == {Lit("localhost:27017: timed out", 26)}

Filter(seq, Test(_)) ==
    LET RECURSIVE go(_)
        go(t) == IF t = <<>> THEN <<>>
                 ELSE (IF Test(Head(t)) THEN <<Head(t)>> ELSE <<>>) \o go(Tail(t))
    IN  go(seq)

\* collection.find({"scraped_date": {"$gte": lo, "$lt": hi}}): the documents
\* whose scraped_date string sorts in [lo, hi)
find_window(coll, lo, hi) ==
    LET InRange(d) == d.scraped_date.has /\ lo <= d.scraped_date.v.day
                                         /\ d.scraped_date.v.day < hi
    IN  Filter(coll, InRange)

\* pd.to_datetime(errors='coerce') then dropna(subset=['scraped_date'])
parseable_rows(data) ==
    LET Parses(d) == d.scraped_date.has /\ d.scraped_date.v.ok
    IN  Filter(data, Parses)

NoPrompt ==
    [raised |-> "", sentiment_summary |-> <<>>, top_keywords |-> <<>>,
     top_engaged |-> <<>>, content_snippets |-> <<>>]

InitLoc ==
    [data |-> <<>>, df |-> DataFrame(<<>>), date_dt |-> 0, prompt |-> NoPrompt,
     summary |-> <<>>, e |-> <<>>, matched |-> 0]

InitCalls == [find |-> 0, create |-> 0, update_one |-> 0, smtp |-> 0, send_report |-> 0]

\* n invocations about to start, over a collection of documents and an
\* empty report collection
PipeInit(n) ==
    /\ today = 0
    /\ articles \in Collections
    /\ reports = <<>>
    /\ outbox = <<>>
    /\ pc = [r \in 1..n |-> "start"]
    /\ loc = [r \in 1..n |-> InitLoc]
    /\ calls = [r \in 1..n |-> InitCalls]
    /\ arg = <<>>
    /\ res = <<>>

Init == PipeInit(NumRuns)

\* the scheduler has launched one more invocation than Spec has
InitOverlap == PipeInit(NumRuns + 1)

\* send_report(summary, article_count): one SMTP session, whose failure is
\* printed and swallowed
send_report(r, summary, article_count, delivered) ==
    /\ outbox' = Append(outbox, [run           |-> r,
                                 date_str      |-> today,
                                 article_count |-> article_count,
                                 summary       |-> summary,
                                 body          |-> Body(summary),
                                 delivered     |-> delivered])
    /\ calls' = [calls EXCEPT ![r].smtp = @ + 1, ![r].send_report = @ + 1]

\* load_daily_articles, the first find(): the window is [today - 30d, today + 1d).
\* An exception of the driver leaves run_summary, which has no handler here.
FindPrimary(r) ==
    /\ pc[r] = "start"
    /\ calls' = [calls EXCEPT ![r].find = @ + 1]
    /\ \/ /\ pc' = [pc EXCEPT ![r] = "raised"]
          /\ loc' = loc
       \/ LET data == find_window(articles, today - WindowDays, today + 1)
          IN  /\ loc' = [loc EXCEPT ![r].data = data]
              /\ pc' = [pc EXCEPT ![r] = IF data = <<>> THEN "fallback" ELSE "frame"]
    /\ UNCHANGED <<today, articles, reports, outbox, arg, res>>

\* `if not data: data = list(collection.find({}))`
FindFallback(r) ==
    /\ pc[r] = "fallback"
    /\ calls' = [calls EXCEPT ![r].find = @ + 1]
    /\ \/ /\ pc' = [pc EXCEPT ![r] = "raised"]
          /\ loc' = loc
       \/ /\ loc' = [loc EXCEPT ![r].data = articles]
          /\ pc' = [pc EXCEPT ![r] = "frame"]
    /\ UNCHANGED <<today, articles, reports, outbox, arg, res>>

\* the rest of load_daily_articles: the empty frame, or the frame of data
\* without the rows whose scraped_date does not parse; df['scraped_date']
\* is a KeyError when no document of data has the key
BuildFrame(r) ==
    /\ pc[r] = "frame"
    /\ IF loc[r].data = <<>>
       THEN /\ loc' = [loc EXCEPT ![r].df = DataFrame(<<>>)]
            /\ pc' = [pc EXCEPT ![r] = "date"]
       ELSE IF "scraped_date" \notin Columns(loc[r].data)
       THEN /\ loc' = loc
            /\ pc' = [pc EXCEPT ![r] = "raised"]
       ELSE /\ loc' = [loc EXCEPT ![r].df = [cols |-> Columns(loc[r].data),
                                             rows |-> parseable_rows(loc[r].data)]]
            /\ pc' = [pc EXCEPT ![r] = "date"]
    /\ UNCHANGED <<today, articles, reports, outbox, calls, arg, res>>

\* date_dt = datetime.utcnow() truncated to midnight
ReadDate(r) ==
    /\ pc[r] = "date"
    /\ loc' = [loc EXCEPT ![r].date_dt = today]
    /\ pc' = [pc EXCEPT ![r] = "branch"]
    /\ UNCHANGED <<today, articles, reports, outbox, calls, arg, res>>

\* a plausible slip: the empty branch returns without a report
NoData_silent(r) ==
    /\ pc[r] = "branch"
    /\ loc[r].df.rows = <<>>
    /\ pc' = [pc EXCEPT ![r] = "returned_empty"]
    /\ UNCHANGED <<today, articles, reports, outbox, loc, calls, arg, res>>

\* `if df.empty: send_report("No articles found today.", 0); return`
NoData(r) ==
    /\ pc[r] = "branch"
    /\ loc[r].df.rows = <<>>
    /\ \E delivered \in BOOLEAN : send_report(r, NoArticles, 0, delivered)
    /\ pc' = [pc EXCEPT ![r] = "returned_empty"]
    /\ UNCHANGED <<today, articles, reports, loc, arg, res>>

\* prompt = build_prompt(df), inside the try
BuildPrompt(r) ==
    /\ pc[r] = "branch"
    /\ loc[r].df.rows # <<>>
    /\ LET prompt == build_prompt(loc[r].df)
       IN  IF prompt.raised # ""
           THEN /\ loc' = [loc EXCEPT ![r].e = KeyError(prompt.raised)]
                /\ pc' = [pc EXCEPT ![r] = "except"]
           ELSE /\ loc' = [loc EXCEPT ![r].prompt = prompt]
                /\ pc' = [pc EXCEPT ![r] = "generate"]
    /\ UNCHANGED <<today, articles, reports, outbox, calls, arg, res>>

\* a plausible slip: a failed generation call is tried once more
Generate_retry(r) ==
    /\ pc[r] = "generate"
    /\ calls' = [calls EXCEPT ![r].create = @ + 1]
    /\ \/ \E cause \in Causes :
            /\ loc' = [loc EXCEPT ![r].e = LLMFailed(cause)]
            /\ pc' = [pc EXCEPT ![r] = IF calls[r].create = 0 THEN "generate" ELSE "except"]
       \/ \E raw \in RawTexts :
            /\ loc' = [loc EXCEPT ![r].summary = clean_summary(strip(raw))]
            /\ pc' = [pc EXCEPT ![r] = "save"]
    /\ UNCHANGED <<today, articles, reports, outbox, arg, res>>

\* summary = generate_summary(prompt): one chat.completions.create, whose
\* exception is re-raised as RuntimeError("LLM failed: ..."), or whose
\* stripped answer goes through clean_summary
Generate(r) ==
    /\ pc[r] = "generate"
    /\ calls' = [calls EXCEPT ![r].create = @ + 1]
    /\ \/ \E cause \in Causes :
            /\ loc' = [loc EXCEPT ![r].e = LLMFailed(cause)]
            /\ pc' = [pc EXCEPT ![r] = "except"]
       \/ \E raw \in RawTexts :
            /\ loc' = [loc EXCEPT ![r].summary = clean_summary(strip(raw))]
            /\ pc' = [pc EXCEPT ![r] = "save"]
    /\ UNCHANGED <<today, articles, reports, outbox, arg, res>>

FirstMatch(date) ==
    LET at == {i \in 1..Len(reports) : reports[i].date = date}
    IN  IF at = {} THEN 0 ELSE CHOOSE i \in at : \A j \in at : i <= j

\* update_one({"date": date_dt}, ..., upsert=True), the query half: the
\* server looks for a report of that date.  MongoClient or the command may
\* raise instead.
UpsertMatch(r) ==
    /\ pc[r] = "save"
    /\ calls' = [calls EXCEPT ![r].update_one = @ + 1]
    /\ \/ \E e \in StoreErrors :
            /\ loc' = [loc EXCEPT ![r].e = <<e>>]
            /\ pc' = [pc EXCEPT ![r] = "except"]
       \/ /\ loc' = [loc EXCEPT ![r].matched = FirstMatch(loc[r].date_dt)]
          /\ pc' = [pc EXCEPT ![r] = "write"]
    /\ UNCHANGED <<today, articles, reports, outbox, arg, res>>

\* update_one, the write half: $set on the matched report, or the insert of
\* a new one when none matched.  The code creates no unique index on date,
\* so the server does not hold the two halves of an upsert together against
\* another upsert of the same date.
UpsertWrite(r) ==
    /\ pc[r] = "write"
    /\ LET doc == [date     |-> loc[r].date_dt,
                   summary  |-> formatted_summary(loc[r].summary),
                   articles |-> Len(loc[r].df.rows)]
       IN  reports' = IF loc[r].matched = 0
                      THEN Append(reports, doc)
                      ELSE [reports EXCEPT ![loc[r].matched] = doc]
    /\ pc' = [pc EXCEPT ![r] = "notify"]
    /\ UNCHANGED <<today, articles, outbox, loc, calls, arg, res>>

\* send_report(formatted_summary, len(df))
SendSummary(r) ==
    /\ pc[r] = "notify"
    /\ \E delivered \in BOOLEAN :
          send_report(r, formatted_summary(loc[r].summary), Len(loc[r].df.rows), delivered)
    /\ pc' = [pc EXCEPT ![r] = "returned"]
    /\ UNCHANGED <<today, articles, reports, loc, arg, res>>

\* except Exception as e: send_report(f"Summary failed: {str(e)}", 0)
HandleException(r) ==
    /\ pc[r] = "except"
    /\ \E delivered \in BOOLEAN : send_report(r, error_msg(loc[r].e), 0, delivered)
    /\ pc' = [pc EXCEPT ![r] = "returned"]
    /\ UNCHANGED <<today, articles, reports, loc, arg, res>>

\* midnight UTC passes
Tick ==
    /\ today < MaxDay
    /\ today' = today + 1
    /\ UNCHANGED <<articles, reports, outbox, pc, loc, calls, arg, res>>

Next ==
    \/ Tick
    \/ \E r \in Runs :
        \/ FindPrimary(r)
        \/ FindFallback(r)
        \/ BuildFrame(r)
        \/ ReadDate(r)
        \/ NoData(r)
        \/ BuildPrompt(r)
        \/ Generate(r)
        \/ UpsertMatch(r)
        \/ UpsertWrite(r)
        \/ SendSummary(r)
        \/ HandleException(r)

Spec == Init /\ [][Next]_vars

SpecOverlap == InitOverlap /\ [][Next]_vars

----------------------------------------------------------------------------
(* The functions on their own: arg is drawn from a bounded set and the     *)
(* function under check is applied to it; the pipeline stands still.       *)

Idle ==
    /\ today = 0
    /\ articles = <<>>
    /\ reports = <<>>
    /\ outbox = <<>>
    /\ pc = [r \in 1..NumRuns |-> "start"]
    /\ loc = [r \in 1..NumRuns |-> InitLoc]
    /\ calls = [r \in 1..NumRuns |-> InitCalls]

\* rows of the frames SpecKeywords draws
MaxDocsKW == 4

\* rows of the frames SpecEngaged draws
MaxDocsEng == 7

\* the tags values a row of SpecKeywords may have: twelve distinct tags
\* over two rows, repeats that tie and untie counts, no tags, an empty list
TagRows ==
    {NoTags,
     Val(<<>>),
     Val(<<"a", "b", "c", "d", "e", "f">>),
     Val(<<"g", "h", "i", "j", "k", "l">>),
     Val(<<"l", "a", "l">>),
     Val(<<"k", "b">>)}

\* the (upvotes, comments) a row of SpecEngaged may have: a row that dropna
\* removes, two rows that only comments tell apart, and a row with fewer
\* upvotes and more comments than both
EngagementRows ==
    {<<Absent, Val(3)>>, <<Val(5), Val(1)>>, <<Val(5), Val(2)>>, <<Val(2), Val(9)>>}

\* the frame whose rows have the tags values t, in that order
KeywordFrame(t) ==
    DataFrame([i \in DOMAIN t |-> [FullDoc(i, Date(0, TRUE)) EXCEPT !.tags = t[i]]])

\* the frame whose rows have the (upvotes, comments) values e, in that order,
\* the id of a row being its position
EngagedFrame(e) ==
    DataFrame([i \in DOMAIN e |-> [FullDoc(i, Date(0, TRUE)) EXCEPT
                                      !.upvotes = e[i][1], !.comments = e[i][2]]])

InitKeywords ==
    /\ Idle
    /\ \E n \in 0..MaxDocsKW : arg \in [1..n -> TagRows]
    /\ res = [stage |-> "rows", df |-> DataFrame(<<>>), prompt |-> NoPrompt]

InitEngaged ==
    /\ Idle
    /\ \E n \in 0..MaxDocsEng : arg \in [1..n -> EngagementRows]
    /\ res = [stage |-> "rows", df |-> DataFrame(<<>>), prompt |-> NoPrompt]

\* build_prompt(df) on the frame
AggregateKeywords ==
    /\ res.stage = "rows"
    /\ res' = [stage |-> "prompt", df |-> KeywordFrame(arg),
               prompt |-> build_prompt(KeywordFrame(arg))]
    /\ UNCHANGED <<pipeVars, arg>>

AggregateEngaged ==
    /\ res.stage = "rows"
    /\ res' = [stage |-> "prompt", df |-> EngagedFrame(arg),
               prompt |-> build_prompt(EngagedFrame(arg))]
    /\ UNCHANGED <<pipeVars, arg>>

SpecKeywords == InitKeywords /\ [][AggregateKeywords]_vars

SpecEngaged == InitEngaged /\ [][AggregateEngaged]_vars

InitClean ==
    /\ Idle
    /\ arg \in TextsUpTo(MaxLen)
    /\ res = [stage |-> "raw", cleaned |-> <<>>, again |-> <<>>]

\* clean_summary(summary_text) on the text as it is
Clean ==
    /\ res.stage = "raw"
    /\ res' = [res EXCEPT !.stage = "cleaned", !.cleaned = clean_summary(arg)]
    /\ UNCHANGED <<pipeVars, arg>>

\* generate_summary's use: clean_summary(content.strip())
PostProcess ==
    /\ res.stage = "raw"
    /\ res' = [res EXCEPT !.stage = "posted", !.cleaned = clean_summary(strip(arg))]
    /\ UNCHANGED <<pipeVars, arg>>

\* clean_summary on its own output
CleanAgain ==
    /\ res.stage \in {"cleaned", "posted"}
    /\ res' = [res EXCEPT !.stage = "again", !.again = clean_summary(res.cleaned)]
    /\ UNCHANGED <<pipeVars, arg>>

NextClean == Clean \/ PostProcess \/ CleanAgain

SpecClean == InitClean /\ [][NextClean]_vars

----------------------------------------------------------------------------
(* Properties of the functions.                                            *)

Min(a, b) == IF a < b THEN a ELSE b

\* positions <<row, index>> at which tag t stands in the frame's tags
TagPositions(t) ==
    {p \in UNION {{<<i, j>> : j \in DOMAIN res.df.rows[i].tags.v} :
                    i \in {i \in DOMAIN res.df.rows : res.df.rows[i].tags.has}} :
        res.df.rows[p[1]].tags.v[p[2]] = t}

FrameTags ==
    UNION {{res.df.rows[i].tags.v[j] : j \in DOMAIN res.df.rows[i].tags.v} :
            i \in {i \in DOMAIN res.df.rows : res.df.rows[i].tags.has}}

Earlier(p, q) == p[1] < q[1] \/ (p[1] = q[1] /\ p[2] < q[2])

FirstPosition(t) ==
    CHOOSE p \in TagPositions(t) : \A q \in TagPositions(t) : p = q \/ Earlier(p, q)

\* entry <<t, n>> goes before tag u: more frequent, or as frequent and first seen earlier
GoesBefore(t, n, u) ==
    \/ n > Cardinality(TagPositions(u))
    \/ (n = Cardinality(TagPositions(u)) /\ Earlier(FirstPosition(t), FirstPosition(u)))

\* C5: whenever build_prompt computes top_keywords, the list holds
\* min(10, number of distinct tags) entries, each a tag of the frame with its
\* number of occurrences in the rows that have tags, no tag twice; the
\* entries go by descending count, equal counts by the position at which
\* the tag was first met; and every tag left out has a count no higher than
\* any entry (and was first met later than any entry of its own count).
C5_TopKeywords ==
    (res.stage = "prompt" /\ res.prompt.raised = "") =>
        LET tk == res.prompt.top_keywords
            In == {tk[k][1] : k \in DOMAIN tk}
        IN  /\ Len(tk) = Min(TopN, Cardinality(FrameTags))
            /\ \A k \in DOMAIN tk :
                  /\ tk[k][1] \in FrameTags
                  /\ tk[k][2] = Cardinality(TagPositions(tk[k][1]))
            /\ \A a, b \in DOMAIN tk :
                  a < b => /\ tk[a][1] # tk[b][1]
                           /\ GoesBefore(tk[a][1], tk[a][2], tk[b][1])
            /\ \A u \in FrameTags \ In :
                  \A k \in DOMAIN tk : GoesBefore(tk[k][1], tk[k][2], u)

\* more than ten distinct tags, a row without tags, a tie inside the list
\* and a tag left out
C5_Witness ==
    /\ res.stage = "prompt"
    /\ res.prompt.raised = ""
    /\ Cardinality(FrameTags) > TopN
    /\ Len(res.prompt.top_keywords) = TopN
    /\ \E i \in DOMAIN res.df.rows : ~res.df.rows[i].tags.has
    /\ \E a, b \in DOMAIN res.prompt.top_keywords :
          /\ a < b
          /\ res.prompt.top_keywords[a][2] = res.prompt.top_keywords[b][2]
    /\ res.prompt.top_keywords[1][2] > res.prompt.top_keywords[TopN][2]

Eligible == {i \in DOMAIN res.df.rows : res.df.rows[i].upvotes.has /\ res.df.rows[i].comments.has}

\* row a ranks strictly above row b under (upvotes, comments)
RanksAbove(a, b) ==
    \/ a.upvotes.v > b.upvotes.v
    \/ (a.upvotes.v = b.upvotes.v /\ a.comments.v > b.comments.v)

\* C6: whenever build_prompt computes top_engaged, it holds
\* min(5, number of rows with both upvotes and comments) rows, each a row of
\* the frame with both values, none twice; no row ranks strictly above a
\* row before it; and no eligible row left out ranks strictly above a row
\* that is in.
C6_TopEngaged ==
    (res.stage = "prompt" /\ res.prompt.raised = "") =>
        LET te == res.prompt.top_engaged
            In == {te[k].id : k \in DOMAIN te}
        IN  /\ Len(te) = Min(TopK, Cardinality(Eligible))
            /\ \A k \in DOMAIN te : te[k].id \in Eligible /\ te[k] = res.df.rows[te[k].id]
            /\ \A a, b \in DOMAIN te : a < b =>
                  /\ te[a].id # te[b].id
                  /\ ~RanksAbove(te[b], te[a])
            /\ \A i \in Eligible \ In :
                  \A k \in DOMAIN te : ~RanksAbove(res.df.rows[i], te[k])

\* more than five eligible rows, a row without upvotes or comments, and two
\* rows in the list that only comments tell apart
C6_Witness ==
    /\ res.stage = "prompt"
    /\ res.prompt.raised = ""
    /\ Cardinality(Eligible) > TopK
    /\ Cardinality(Eligible) < Len(res.df.rows)
    /\ Len(res.prompt.top_engaged) = TopK
    /\ \E a, b \in DOMAIN res.prompt.top_engaged :
          /\ res.prompt.top_engaged[a].upvotes = res.prompt.top_engaged[b].upvotes
          /\ res.prompt.top_engaged[a].comments.v > res.prompt.top_engaged[b].comments.v
    /\ \E k \in DOMAIN res.prompt.top_engaged :
          res.prompt.top_engaged[k].upvotes.v < res.prompt.top_engaged[1].upvotes.v

\* the marker stands at 0-based index i of s
MarkerAt(s, i) ==
    /\ i + Len(header) <= Len(s)
    /\ \A k \in 1..Len(header) : s[i + k] = header[k]

\* t is s without its leading and trailing whitespace
IsTrimOf(t, s) ==
    \E lo \in 1..(Len(s) + 1) : \E hi \in 0..Len(s) :
        /\ hi - lo + 1 = Len(t)
        /\ \A k \in 1..Len(t) : t[k] = s[lo + k - 1]
        /\ \A k \in 1..(lo - 1) : s[k] \in Whitespace
        /\ \A k \in (hi + 1)..Len(s) : s[k] \in Whitespace
        /\ t # <<>> => (t[1] \notin Whitespace /\ t[Len(t)] \notin Whitespace)

\* t is what the claim says clean_summary makes of s
IsCleanOf(t, s) ==
    IF \E i \in 0..Len(s) : MarkerAt(s, i)
    THEN \E i \in 0..Len(s) :
            /\ MarkerAt(s, i)
            /\ \A j \in 0..(i - 1) : ~MarkerAt(s, j)
            /\ IsTrimOf(t, [k \in 1..(Len(s) - i) |-> s[i + k]])
            /\ MarkerAt(t, 0)
    ELSE IsTrimOf(t, s)

----------------------------------------------------------------------------
(* Properties of the pipeline.                                             *)

\* run_summary has returned, or an exception has left it
Terminated(r) == pc[r] \in {"returned", "returned_empty", "raised"}

\* the send_report calls of run r
Sent(r) == {i \in DOMAIN outbox : outbox[i].run = r}

\* C1: a run that has terminated, however it ended, has called send_report
\* exactly once.
C1_ExactlyOneNotification ==
    \A r \in Runs : Terminated(r) => calls[r].send_report = 1

\* C2: the report collection never holds two reports of the same date.
C2_OneReportPerDate ==
    \A i, j \in DOMAIN reports : reports[i].date = reports[j].date => i = j

\* the generation call of run r raised with this cause
GenerationRaised(r, cause) == loc[r].e = LLMFailed(cause)

\* C3, as claimed: once a run whose generation call raised has returned, it
\* has sent a report whose body holds the whole cause string, and it has made
\* no upsert.
C3_BodyHoldsCause ==
    \A r \in Runs : \A cause \in Causes :
        (GenerationRaised(r, cause) /\ pc[r] = "returned") =>
            /\ \E i \in Sent(r) : Carries(outbox[i].body, cause)
            /\ calls[r].update_one = 0

\* C3, amended: a run whose generation call raised makes no upsert at any
\* point, and once it has returned it has sent one report, of 0 articles,
\* whose body is the heading, then the first 3000 characters of
\* "Summary failed: LLM failed: <cause>", then "..."; the body holds the
\* whole cause string whenever that message is at most 3000 characters long.
C3_BodyHoldsCauseUpToLimit ==
    \A r \in Runs : \A cause \in Causes :
        GenerationRaised(r, cause) =>
            /\ calls[r].update_one = 0
            /\ pc[r] \in {"except", "returned"}
            /\ pc[r] = "returned" =>
                  /\ Cardinality(Sent(r)) = 1
                  /\ \A i \in Sent(r) :
                        LET body == outbox[i].body
                        IN  /\ outbox[i].article_count = 0
                            /\ Len(body) = 5
                            /\ body[1].k = "Summary for"
                            /\ body[2] = Lit("Summary failed: ", 16)
                            /\ body[3] = Lit("LLM failed: ", 12)
                            /\ body[4].k = cause.k
                            /\ body[4].n = Min(cause.n, BodyLimit - 28)
                            /\ body[5] = Lit("...", 3)
                            /\ (28 + cause.n <= BodyLimit) => Carries(body, cause)

\* a run has returned after a generation failure whose cause fits the body
C3_Witness ==
    \E r \in Runs : \E cause \in Causes :
        /\ GenerationRaised(r, cause)
        /\ pc[r] = "returned"
        /\ 28 + cause.n <= BodyLimit
        /\ \E i \in Sent(r) : Carries(outbox[i].body, cause)

\* C4: a run that has returned with no document selected, the fallback
\* included, has sent exactly one report, "No articles found today." with an
\* article count of 0, has made no generation call and no upsert.
C4_EmptyInput ==
    \A r \in Runs :
        (pc[r] \in {"returned", "returned_empty"} /\ loc[r].data = <<>>) =>
            /\ Cardinality(Sent(r)) = 1
            /\ calls[r].send_report = 1
            /\ \A i \in Sent(r) :
                  /\ outbox[i].summary = NoArticles
                  /\ Carries(outbox[i].body, Lit("No articles found today.", 24))
                  /\ outbox[i].article_count = 0
            /\ calls[r].create = 0
            /\ calls[r].update_one = 0

\* a run has returned after both queries came back empty
C4_Witness ==
    \E r \in Runs :
        /\ pc[r] = "returned_empty"
        /\ loc[r].data = <<>>
        /\ calls[r].find = 2

\* the collection holds a document whose scraped_date parses
HasParseable == \E i \in DOMAIN articles :
                    articles[i].scraped_date.has /\ articles[i].scraped_date.v.ok

\* C8: when the collection holds a document with a parseable scraped_date,
\* a run whose queries returned has a non-empty frame and does not end in
\* the no-articles return.
C8_EmptyOnlyWithoutData ==
    \A r \in Runs :
        (HasParseable /\ pc[r] \notin {"start", "fallback", "frame", "raised"}) =>
            /\ loc[r].df.rows # <<>>
            /\ pc[r] # "returned_empty"

\* C9: a run whose frame keeps at least one row, once past build_prompt and
\* the point of the generation call, has made that call, whatever fields its
\* documents lack.
C9_MalformedNeverFatal ==
    \A r \in Runs :
        (loc[r].df.rows # <<>> /\ pc[r] \notin {"date", "branch", "generate"}) =>
            calls[r].create >= 1

\* C10, as claimed: a run makes at most one document-store query, one
\* generation call and one delivery call.
C10_AtMostOnceEach ==
    \A r \in Runs :
        /\ calls[r].find <= 1
        /\ calls[r].create <= 1
        /\ calls[r].smtp <= 1

\* C10, amended: a run makes the window query at most once and the
\* unfiltered query at most once, the latter only when the window held no
\* document on the day of the query; and at most one generation call and one
\* delivery call.
C10_NoRetry ==
    \A r \in Runs :
        /\ calls[r].find <= 2
        /\ calls[r].find = 2 =>
              \E d \in 0..today : find_window(articles, d - WindowDays, d + 1) = <<>>
        /\ calls[r].create <= 1
        /\ calls[r].smtp <= 1

\* a run has gone through the fallback query, generation, upsert and delivery
C10_Witness ==
    \E r \in Runs :
        /\ pc[r] = "returned"
        /\ calls[r].find = 2
        /\ calls[r].create = 1
        /\ calls[r].update_one = 1
        /\ calls[r].smtp = 1

====
